---------------------------- MODULE Spec2Model ----------------------------
(***************************************************************************)
(* Model of rust-sc2's src/consts.rs: the process-wide constant tables.    *)
(*                                                                         *)
(* Every table is a lazy_static: a HashMap built by its initializer the    *)
(* first time the static is dereferenced, guarded by a Once, and never     *)
(* written again.  Two compile targets exist, cfg(windows) and cfg(unix);  *)
(* some constants and some initializers depend on the target.              *)
(*                                                                         *)
(* Encoding of Rust values:                                                *)
(*   enum variants (UnitTypeId::Marine, ...)  strings ("Marine")           *)
(*   Option<T>      None is <<>>, Some(x) is <<x>>                         *)
(*   HashMap<K, V>  a function whose DOMAIN is the key set                 *)
(*   Vec<T>, arrays and tuples                sequences                    *)
(*   f32 literals   integers in units of 10^-7 (1.3636 is 13636000)        *)
(***************************************************************************)
EXTENDS Integers, Sequences, FiniteSets, TLC

(***************************************************************************)
(* Compile targets.                                                        *)
(***************************************************************************)
Windows == "windows"

Unix == "unix"

Targets == {Windows, Unix}

(***************************************************************************)
(* Option, HashMap and the hashmap! literal macro.                         *)
(***************************************************************************)
None == <<>>

Some(x) == <<x>>

HashMap_new == <<>>

\* HashMap::insert: an existing key keeps its slot and takes the new value.
insert(map, k, v) == (k :> v) @@ map

\* HashMap::get
get(map, k) == IF k \in DOMAIN map THEN Some(map[k]) ELSE None

\* HashMap::extend: every entry of `later` is inserted into map.
extend(map, later) == later @@ map

\* The map after pairs[lo..hi] have been inserted, in that order, into a new
\* map.  The run is split in two halves (the first inserted before the
\* second) only to keep the evaluation shallow.
RECURSIVE inserted(_, _, _)
inserted(pairs, lo, hi) ==
  IF lo > hi THEN HashMap_new
  ELSE IF lo = hi THEN insert(HashMap_new, pairs[lo][1], pairs[lo][2])
  ELSE LET mid == (lo + hi) \div 2
       IN  extend(inserted(pairs, lo, mid), inserted(pairs, mid + 1, hi))

\* hashmap![k1 => v1, k2 => v2, ...]: a new map into which the pairs are
\* inserted one by one, in the order they are written.
hashmap(pairs) == inserted(pairs, 1, Len(pairs))

Range(s) == {s[i] : i \in DOMAIN s}

(***************************************************************************)
(* Target-dependent constants.                                             *)
(***************************************************************************)
GAME_SPEED == 14000000

FRAMES_PER_SECOND == 224000000

ANTI_ARMOR_BUFF(t) ==
  IF t = Windows THEN "RavenShredderMissileArmorReductionUISubtruct"
  ELSE "RavenShredderMissileArmorReduction"

ANTI_ARMOR_TARGET == "RavenShredderMissileTint"

INTERFERENCE_MATRIX_BUFF == "RavenScramblerMissile"

\* Variant of INHIBITOR_IDS without the cfg split: six ids on every target.
INHIBITOR_IDS_unsplit(t) ==
  << "InhibitorZoneSmall", "InhibitorZoneMedium", "InhibitorZoneLarge",
     "InhibitorZoneFlyingSmall", "InhibitorZoneFlyingMedium",
     "InhibitorZoneFlyingLarge" >>

INHIBITOR_IDS(t) ==
  IF t = Windows
  THEN << "InhibitorZoneSmall", "InhibitorZoneMedium", "InhibitorZoneLarge",
          "InhibitorZoneFlyingSmall", "InhibitorZoneFlyingMedium",
          "InhibitorZoneFlyingLarge" >>
  ELSE << "InhibitorZoneSmall", "InhibitorZoneMedium", "InhibitorZoneLarge" >>

(***************************************************************************)
(* RaceValues.                                                             *)
(***************************************************************************)
RaceValues_default ==
  [start_townhall |-> "NotAUnit", townhalls |-> <<>>, gas |-> "NotAUnit",
   rich_gas |-> "NotAUnit", supply |-> "NotAUnit", worker |-> "NotAUnit"]

RACE_VALUES_pairs ==
  << <<"Terran", [start_townhall |-> "CommandCenter",
                  townhalls |-> <<"CommandCenter", "OrbitalCommand", "PlanetaryFortress",
                                  "CommandCenterFlying", "OrbitalCommandFlying">>,
                  gas |-> "Refinery", rich_gas |-> "RefineryRich",
                  supply |-> "SupplyDepot", worker |-> "SCV"]>>,
     <<"Zerg", [start_townhall |-> "Hatchery",
                townhalls |-> <<"Hatchery", "Lair", "Hive">>,
                gas |-> "Extractor", rich_gas |-> "ExtractorRich",
                supply |-> "Overlord", worker |-> "Drone"]>>,
     <<"Protoss", [start_townhall |-> "Nexus",
                   townhalls |-> <<"Nexus">>,
                   gas |-> "Assimilator", rich_gas |-> "AssimilatorRich",
                   supply |-> "Pylon", worker |-> "Probe"]>> >>

(***************************************************************************)
(* The identifiers of crate::ids, crate::game_data and crate::player that  *)
(* this file names.                                                        *)
(***************************************************************************)
UnitTypeId ==
  { "Adept", "AdeptPhaseShift", "Archon", "Armory",
     "Assimilator", "AssimilatorRich", "AutoTurret", "Baneling",
     "BanelingBurrowed", "BanelingCocoon", "BanelingNest", "Banshee",
     "Barracks", "BarracksFlying", "BarracksReactor", "BarracksTechLab",
     "Battlecruiser", "BroodLord", "Bunker", "Carrier",
     "Changeling", "ChangelingMarine", "ChangelingMarineShield", "ChangelingZealot",
     "ChangelingZergling", "ChangelingZerglingWings", "Colossus", "CommandCenter",
     "CommandCenterFlying", "Corruptor", "CreepTumor", "CreepTumorBurrowed",
     "CreepTumorQueen", "CyberneticsCore", "Cyclone", "DarkShrine",
     "DarkTemplar", "Disruptor", "Drone", "DroneBurrowed",
     "EngineeringBay", "EvolutionChamber", "Extractor", "ExtractorRich",
     "Factory", "FactoryFlying", "FactoryReactor", "FactoryTechLab",
     "FleetBeacon", "Forge", "FusionCore", "Gateway",
     "Ghost", "GhostAcademy", "GreaterSpire", "Hatchery",
     "Hellion", "HellionTank", "HighTemplar", "Hive",
     "Hydralisk", "HydraliskBurrowed", "HydraliskDen", "Immortal",
     "InfestationPit", "Infestor", "InfestorBurrowed", "InfestorTerran",
     "InfestorTerranBurrowed", "InhibitorZoneFlyingLarge", "InhibitorZoneFlyingMedium", "InhibitorZoneFlyingSmall",
     "InhibitorZoneLarge", "InhibitorZoneMedium", "InhibitorZoneSmall", "Lair",
     "Larva", "Liberator", "LiberatorAG", "LocustMP",
     "LocustMPFlying", "LurkerDenMP", "LurkerMP", "LurkerMPBurrowed",
     "Marauder", "Marine", "Medivac", "MissileTurret",
     "Mothership", "Mutalisk", "Nexus", "NotAUnit",
     "NydusCanal", "NydusNetwork", "Observer", "ObserverSiegeMode",
     "Oracle", "OracleStasisTrap", "OrbitalCommand", "OrbitalCommandFlying",
     "Overlord", "OverlordTransport", "Overseer", "OverseerSiegeMode",
     "Phoenix", "PhotonCannon", "PlanetaryFortress", "Probe",
     "Pylon", "PylonOvercharged", "Queen", "QueenBurrowed",
     "Ravager", "RavagerBurrowed", "RavagerCocoon", "Raven",
     "Reactor", "Reaper", "Refinery", "RefineryRich",
     "Roach", "RoachBurrowed", "RoachWarren", "RoboticsBay",
     "RoboticsFacility", "SCV", "SensorTower", "Sentry",
     "ShieldBattery", "SiegeTank", "SiegeTankSieged", "SpawningPool",
     "SpineCrawler", "SpineCrawlerUprooted", "Spire", "SporeCrawler",
     "SporeCrawlerUprooted", "Stalker", "Stargate", "Starport",
     "StarportFlying", "StarportReactor", "StarportTechLab", "SupplyDepot",
     "SupplyDepotLowered", "SwarmHostBurrowedMP", "SwarmHostMP", "TechLab",
     "Tempest", "TemplarArchive", "Thor", "ThorAP",
     "TwilightCouncil", "Ultralisk", "UltraliskBurrowed", "UltraliskCavern",
     "Viking", "VikingAssault", "VikingFighter", "Viper",
     "VoidRay", "WarpGate", "WarpPrism", "WarpPrismPhasing",
     "WidowMine", "WidowMineBurrowed", "Zealot", "Zergling",
     "ZerglingBurrowed" }

UpgradeId ==
  { "AdeptPiercingAttack", "AnabolicSynthesis", "BansheeCloak",
     "BansheeSpeed", "BattlecruiserEnableSpecializations", "BlinkTech",
     "Burrow", "CentrificalHooks", "Charge",
     "ChitinousPlating", "CycloneLockOnDamageUpgrade", "DarkTemplarBlinkUpgrade",
     "DiggingClaws", "DrillClaws", "EnhancedShockwaves",
     "EvolveGroovedSpines", "EvolveMuscularAugments", "ExtendedThermalLance",
     "GlialReconstitution", "GraviticDrive", "HiSecAutoTracking",
     "HighCapacityBarrels", "InfestorEnergyUpgrade", "LiberatorMorph",
     "MedivacIncreaseSpeedBoost", "MedivacRapidDeployment", "NeuralParasite",
     "ObserverGraviticBooster", "Overlordspeed", "PersonalCloaking",
     "PhoenixRangeUpgrade", "ProtossAirArmorsLevel1", "ProtossAirArmorsLevel2",
     "ProtossAirArmorsLevel3", "ProtossAirWeaponsLevel1", "ProtossAirWeaponsLevel2",
     "ProtossAirWeaponsLevel3", "ProtossGroundArmorsLevel1", "ProtossGroundArmorsLevel2",
     "ProtossGroundArmorsLevel3", "ProtossGroundWeaponsLevel1", "ProtossGroundWeaponsLevel2",
     "ProtossGroundWeaponsLevel3", "ProtossShieldsLevel1", "ProtossShieldsLevel2",
     "ProtossShieldsLevel3", "PsiStormTech", "PunisherGrenades",
     "RavenCorvidReactor", "ShieldWall", "SmartServos",
     "Stimpack", "TerranBuildingArmor", "TerranInfantryArmorsLevel1",
     "TerranInfantryArmorsLevel2", "TerranInfantryArmorsLevel3", "TerranInfantryWeaponsLevel1",
     "TerranInfantryWeaponsLevel2", "TerranInfantryWeaponsLevel3", "TerranShipWeaponsLevel1",
     "TerranShipWeaponsLevel2", "TerranShipWeaponsLevel3", "TerranVehicleAndShipArmorsLevel1",
     "TerranVehicleAndShipArmorsLevel2", "TerranVehicleAndShipArmorsLevel3", "TerranVehicleWeaponsLevel1",
     "TerranVehicleWeaponsLevel2", "TerranVehicleWeaponsLevel3", "VoidRaySpeedUpgrade",
     "WarpGateResearch", "ZergFlyerArmorsLevel1", "ZergFlyerArmorsLevel2",
     "ZergFlyerArmorsLevel3", "ZergFlyerWeaponsLevel1", "ZergFlyerWeaponsLevel2",
     "ZergFlyerWeaponsLevel3", "ZergGroundArmorsLevel1", "ZergGroundArmorsLevel2",
     "ZergGroundArmorsLevel3", "ZergMeleeWeaponsLevel1", "ZergMeleeWeaponsLevel2",
     "ZergMeleeWeaponsLevel3", "ZergMissileWeaponsLevel1", "ZergMissileWeaponsLevel2",
     "ZergMissileWeaponsLevel3", "Zerglingattackspeed", "Zerglingmovementspeed" }

BuffId ==
  { "AccelerationZoneFlyingTemporalField", "AccelerationZoneTemporalField", "ChargeUp",
     "DutchMarauderSlow", "FungalGrowth", "InhibitorZoneFlyingTemporalField",
     "InhibitorZoneTemporalField", "RavenScramblerMissile", "RavenShredderMissileArmorReduction",
     "RavenShredderMissileArmorReductionUISubtruct", "RavenShredderMissileTint", "Stimpack",
     "StimpackMarauder", "TimeWarpProduction" }

AbilityId ==
  { "TrainWarpAdept", "WarpGateTrainDarkTemplar", "WarpGateTrainHighTemplar",
     "WarpGateTrainSentry", "WarpGateTrainStalker", "WarpGateTrainZealot" }

TargetType == {"Ground", "Air", "Any"}

Attribute == {"Light", "Armored", "Biological", "Mechanical", "Massive", "Structure"}

Race == {"Terran", "Zerg", "Protoss"}

(***************************************************************************)
(* The literal entries of each table, in the order they are written.       *)
(***************************************************************************)
UNIT_ALIAS_pairs ==
  << <<"Adept", "AdeptPhaseShift">>, <<"AdeptPhaseShift", "Adept">>,
     <<"Assimilator", "AssimilatorRich">>, <<"AssimilatorRich", "Assimilator">>,
     <<"Baneling", "BanelingBurrowed">>, <<"BanelingBurrowed", "Baneling">>,
     <<"Barracks", "BarracksFlying">>, <<"BarracksFlying", "Barracks">>,
     <<"Changeling", "ChangelingMarine">>, <<"ChangelingMarine", "Changeling">>,
     <<"Changeling", "ChangelingMarineShield">>, <<"ChangelingMarineShield", "Changeling">>,
     <<"Changeling", "ChangelingZealot">>, <<"ChangelingZealot", "Changeling">>,
     <<"Changeling", "ChangelingZergling">>, <<"ChangelingZergling", "Changeling">>,
     <<"Changeling", "ChangelingZerglingWings">>, <<"ChangelingZerglingWings", "Changeling">>,
     <<"CommandCenter", "CommandCenterFlying">>, <<"CommandCenterFlying", "CommandCenter">>,
     <<"CreepTumor", "CreepTumorBurrowed">>, <<"CreepTumorBurrowed", "CreepTumor">>,
     <<"CreepTumor", "CreepTumorQueen">>, <<"CreepTumorQueen", "CreepTumor">>,
     <<"Drone", "DroneBurrowed">>, <<"DroneBurrowed", "Drone">>,
     <<"Extractor", "ExtractorRich">>, <<"ExtractorRich", "Extractor">>,
     <<"Factory", "FactoryFlying">>, <<"FactoryFlying", "Factory">>,
     <<"Hydralisk", "HydraliskBurrowed">>, <<"HydraliskBurrowed", "Hydralisk">>,
     <<"Infestor", "InfestorBurrowed">>, <<"InfestorBurrowed", "Infestor">>,
     <<"InfestorTerran", "InfestorTerranBurrowed">>, <<"InfestorTerranBurrowed", "InfestorTerran">>,
     <<"Liberator", "LiberatorAG">>, <<"LiberatorAG", "Liberator">>,
     <<"LocustMP", "LocustMPFlying">>, <<"LocustMPFlying", "LocustMP">>,
     <<"LurkerMP", "LurkerMPBurrowed">>, <<"LurkerMPBurrowed", "LurkerMP">>,
     <<"Observer", "ObserverSiegeMode">>, <<"ObserverSiegeMode", "Observer">>,
     <<"OrbitalCommand", "OrbitalCommandFlying">>, <<"OrbitalCommandFlying", "OrbitalCommand">>,
     <<"Overseer", "OverseerSiegeMode">>, <<"OverseerSiegeMode", "Overseer">>,
     <<"Pylon", "PylonOvercharged">>, <<"PylonOvercharged", "Pylon">>,
     <<"Queen", "QueenBurrowed">>, <<"QueenBurrowed", "Queen">>,
     <<"Ravager", "RavagerBurrowed">>, <<"RavagerBurrowed", "Ravager">>,
     <<"Refinery", "RefineryRich">>, <<"RefineryRich", "Refinery">>,
     <<"Roach", "RoachBurrowed">>, <<"RoachBurrowed", "Roach">>,
     <<"SiegeTank", "SiegeTankSieged">>, <<"SiegeTankSieged", "SiegeTank">>,
     <<"SpineCrawler", "SpineCrawlerUprooted">>, <<"SpineCrawlerUprooted", "SpineCrawler">>,
     <<"SporeCrawler", "SporeCrawlerUprooted">>, <<"SporeCrawlerUprooted", "SporeCrawler">>,
     <<"Starport", "StarportFlying">>, <<"StarportFlying", "Starport">>,
     <<"SupplyDepot", "SupplyDepotLowered">>, <<"SupplyDepotLowered", "SupplyDepot">>,
     <<"SwarmHostMP", "SwarmHostBurrowedMP">>, <<"SwarmHostBurrowedMP", "SwarmHostMP">>,
     <<"Thor", "ThorAP">>, <<"ThorAP", "Thor">>,
     <<"Ultralisk", "UltraliskBurrowed">>, <<"UltraliskBurrowed", "Ultralisk">>,
     <<"VikingFighter", "VikingAssault">>, <<"VikingAssault", "VikingFighter">>,
     <<"WarpPrismPhasing", "WarpPrism">>, <<"WarpPrism", "WarpPrismPhasing">>,
     <<"WidowMine", "WidowMineBurrowed">>, <<"WidowMineBurrowed", "WidowMine">>,
     <<"Zergling", "ZerglingBurrowed">>, <<"ZerglingBurrowed", "Zergling">> >>

TECH_REQUIREMENTS_pairs ==
  << <<"MissileTurret", "EngineeringBay">>, <<"SensorTower", "EngineeringBay">>,
     <<"PlanetaryFortress", "EngineeringBay">>, <<"Barracks", "SupplyDepot">>,
     <<"OrbitalCommand", "Barracks">>, <<"Bunker", "Barracks">>,
     <<"Ghost", "GhostAcademy">>, <<"GhostAcademy", "Barracks">>,
     <<"Factory", "Barracks">>, <<"Armory", "Factory">>,
     <<"HellionTank", "Armory">>, <<"Thor", "Armory">>,
     <<"Starport", "Factory">>, <<"FusionCore", "Starport">>,
     <<"Battlecruiser", "FusionCore">>, <<"PhotonCannon", "Forge">>,
     <<"CyberneticsCore", "Gateway">>, <<"Sentry", "CyberneticsCore">>,
     <<"Stalker", "CyberneticsCore">>, <<"Adept", "CyberneticsCore">>,
     <<"TwilightCouncil", "CyberneticsCore">>, <<"ShieldBattery", "CyberneticsCore">>,
     <<"TemplarArchive", "TwilightCouncil">>, <<"DarkShrine", "TwilightCouncil">>,
     <<"HighTemplar", "TemplarArchive">>, <<"DarkTemplar", "DarkShrine">>,
     <<"Stargate", "CyberneticsCore">>, <<"Tempest", "FleetBeacon">>,
     <<"Carrier", "FleetBeacon">>, <<"Mothership", "FleetBeacon">>,
     <<"RoboticsFacility", "CyberneticsCore">>, <<"RoboticsBay", "RoboticsFacility">>,
     <<"Colossus", "RoboticsBay">>, <<"Disruptor", "RoboticsBay">>,
     <<"Zergling", "SpawningPool">>, <<"Queen", "SpawningPool">>,
     <<"RoachWarren", "SpawningPool">>, <<"BanelingNest", "SpawningPool">>,
     <<"SpineCrawler", "SpawningPool">>, <<"SporeCrawler", "SpawningPool">>,
     <<"Roach", "RoachWarren">>, <<"Baneling", "BanelingNest">>,
     <<"Lair", "SpawningPool">>, <<"Overseer", "Lair">>,
     <<"OverlordTransport", "Lair">>, <<"InfestationPit", "Lair">>,
     <<"Infestor", "InfestationPit">>, <<"SwarmHostMP", "InfestationPit">>,
     <<"HydraliskDen", "Lair">>, <<"Hydralisk", "HydraliskDen">>,
     <<"LurkerDenMP", "HydraliskDen">>, <<"LurkerMP", "LurkerDenMP">>,
     <<"Spire", "Lair">>, <<"Mutalisk", "Spire">>,
     <<"Corruptor", "Spire">>, <<"NydusNetwork", "Lair">>,
     <<"Hive", "InfestationPit">>, <<"Viper", "Hive">>,
     <<"UltraliskCavern", "Hive">>, <<"GreaterSpire", "Hive">>,
     <<"BroodLord", "GreaterSpire">> >>

PRODUCERS_pairs ==
  << <<"Adept", "Gateway">>, <<"Armory", "SCV">>,
     <<"Assimilator", "Probe">>, <<"AutoTurret", "Raven">>,
     <<"Baneling", "Zergling">>, <<"BanelingNest", "Drone">>,
     <<"Banshee", "Starport">>, <<"Barracks", "SCV">>,
     <<"Battlecruiser", "Starport">>, <<"BroodLord", "Corruptor">>,
     <<"Bunker", "SCV">>, <<"Carrier", "Stargate">>,
     <<"Changeling", "Overseer">>, <<"Colossus", "RoboticsFacility">>,
     <<"CommandCenter", "SCV">>, <<"Corruptor", "Larva">>,
     <<"CreepTumor", "Queen">>, <<"CreepTumorQueen", "Queen">>,
     <<"CyberneticsCore", "Probe">>, <<"Cyclone", "Factory">>,
     <<"DarkShrine", "Probe">>, <<"DarkTemplar", "Gateway">>,
     <<"Disruptor", "RoboticsFacility">>, <<"Drone", "Larva">>,
     <<"EngineeringBay", "SCV">>, <<"EvolutionChamber", "Drone">>,
     <<"Extractor", "Drone">>, <<"Factory", "SCV">>,
     <<"FleetBeacon", "Probe">>, <<"Forge", "Probe">>,
     <<"FusionCore", "SCV">>, <<"Gateway", "Probe">>,
     <<"Ghost", "Barracks">>, <<"GhostAcademy", "SCV">>,
     <<"GreaterSpire", "Spire">>, <<"Hatchery", "Drone">>,
     <<"Hellion", "Factory">>, <<"HellionTank", "Factory">>,
     <<"HighTemplar", "Gateway">>, <<"Hive", "Lair">>,
     <<"Hydralisk", "Larva">>, <<"HydraliskDen", "Drone">>,
     <<"Immortal", "RoboticsFacility">>, <<"InfestationPit", "Drone">>,
     <<"Infestor", "Larva">>, <<"Lair", "Hatchery">>,
     <<"Liberator", "Starport">>, <<"LocustMPFlying", "SwarmHostMP">>,
     <<"LurkerDenMP", "Drone">>, <<"LurkerMP", "Hydralisk">>,
     <<"Marauder", "Barracks">>, <<"Marine", "Barracks">>,
     <<"Medivac", "Starport">>, <<"MissileTurret", "SCV">>,
     <<"Mothership", "Nexus">>, <<"Mutalisk", "Larva">>,
     <<"Nexus", "Probe">>, <<"NydusCanal", "NydusNetwork">>,
     <<"NydusNetwork", "Drone">>, <<"Observer", "RoboticsFacility">>,
     <<"Oracle", "Stargate">>, <<"OracleStasisTrap", "Oracle">>,
     <<"OrbitalCommand", "CommandCenter">>, <<"Overlord", "Larva">>,
     <<"OverlordTransport", "Overlord">>, <<"Overseer", "Overlord">>,
     <<"Phoenix", "Stargate">>, <<"PhotonCannon", "Probe">>,
     <<"PlanetaryFortress", "CommandCenter">>, <<"Probe", "Nexus">>,
     <<"Pylon", "Probe">>, <<"Queen", "Hatchery">>,
     <<"Ravager", "Roach">>, <<"Raven", "Starport">>,
     <<"Reaper", "Barracks">>, <<"Refinery", "SCV">>,
     <<"Roach", "Larva">>, <<"RoachWarren", "Drone">>,
     <<"RoboticsBay", "Probe">>, <<"RoboticsFacility", "Probe">>,
     <<"SCV", "CommandCenter">>, <<"SensorTower", "SCV">>,
     <<"Sentry", "Gateway">>, <<"ShieldBattery", "Probe">>,
     <<"SiegeTank", "Factory">>, <<"SpawningPool", "Drone">>,
     <<"SpineCrawler", "Drone">>, <<"Spire", "Drone">>,
     <<"SporeCrawler", "Drone">>, <<"Stalker", "Gateway">>,
     <<"Stargate", "Probe">>, <<"Starport", "SCV">>,
     <<"SupplyDepot", "SCV">>, <<"SwarmHostMP", "Larva">>,
     <<"Tempest", "Stargate">>, <<"TemplarArchive", "Probe">>,
     <<"Thor", "Factory">>, <<"TwilightCouncil", "Probe">>,
     <<"Ultralisk", "Larva">>, <<"UltraliskCavern", "Drone">>,
     <<"VikingFighter", "Starport">>, <<"Viper", "Larva">>,
     <<"VoidRay", "Stargate">>, <<"WarpPrism", "RoboticsFacility">>,
     <<"WidowMine", "Factory">>, <<"Zealot", "Gateway">>,
     <<"Zergling", "Larva">> >>

RESEARCHERS_pairs ==
  << <<"AdeptPiercingAttack", "TwilightCouncil">>, <<"AnabolicSynthesis", "UltraliskCavern">>,
     <<"BansheeCloak", "StarportTechLab">>, <<"BansheeSpeed", "StarportTechLab">>,
     <<"BattlecruiserEnableSpecializations", "FusionCore">>, <<"BlinkTech", "TwilightCouncil">>,
     <<"Burrow", "Hive">>, <<"Charge", "TwilightCouncil">>,
     <<"ChitinousPlating", "UltraliskCavern">>, <<"CycloneLockOnDamageUpgrade", "FactoryTechLab">>,
     <<"DarkTemplarBlinkUpgrade", "DarkShrine">>, <<"DiggingClaws", "LurkerDenMP">>,
     <<"DrillClaws", "FactoryTechLab">>, <<"EvolveGroovedSpines", "HydraliskDen">>,
     <<"EvolveMuscularAugments", "HydraliskDen">>, <<"ExtendedThermalLance", "RoboticsBay">>,
     <<"GraviticDrive", "RoboticsBay">>, <<"HighCapacityBarrels", "FactoryTechLab">>,
     <<"HiSecAutoTracking", "EngineeringBay">>, <<"InfestorEnergyUpgrade", "InfestationPit">>,
     <<"LiberatorMorph", "StarportTechLab">>, <<"MedivacIncreaseSpeedBoost", "StarportTechLab">>,
     <<"NeuralParasite", "InfestationPit">>, <<"ObserverGraviticBooster", "RoboticsBay">>,
     <<"Overlordspeed", "Hive">>, <<"PersonalCloaking", "GhostAcademy">>,
     <<"PhoenixRangeUpgrade", "FleetBeacon">>, <<"ProtossAirArmorsLevel1", "CyberneticsCore">>,
     <<"ProtossAirArmorsLevel2", "CyberneticsCore">>, <<"ProtossAirArmorsLevel3", "CyberneticsCore">>,
     <<"ProtossAirWeaponsLevel1", "CyberneticsCore">>, <<"ProtossAirWeaponsLevel2", "CyberneticsCore">>,
     <<"ProtossAirWeaponsLevel3", "CyberneticsCore">>, <<"ProtossGroundArmorsLevel1", "Forge">>,
     <<"ProtossGroundArmorsLevel2", "Forge">>, <<"ProtossGroundArmorsLevel3", "Forge">>,
     <<"ProtossGroundWeaponsLevel1", "Forge">>, <<"ProtossGroundWeaponsLevel2", "Forge">>,
     <<"ProtossGroundWeaponsLevel3", "Forge">>, <<"ProtossShieldsLevel1", "Forge">>,
     <<"ProtossShieldsLevel2", "Forge">>, <<"ProtossShieldsLevel3", "Forge">>,
     <<"PsiStormTech", "TemplarArchive">>, <<"PunisherGrenades", "BarracksTechLab">>,
     <<"RavenCorvidReactor", "StarportTechLab">>, <<"ShieldWall", "BarracksTechLab">>,
     <<"SmartServos", "FactoryTechLab">>, <<"Stimpack", "BarracksTechLab">>,
     <<"TerranBuildingArmor", "EngineeringBay">>, <<"TerranInfantryArmorsLevel1", "EngineeringBay">>,
     <<"TerranInfantryArmorsLevel2", "EngineeringBay">>, <<"TerranInfantryArmorsLevel3", "EngineeringBay">>,
     <<"TerranInfantryWeaponsLevel1", "EngineeringBay">>, <<"TerranInfantryWeaponsLevel2", "EngineeringBay">>,
     <<"TerranInfantryWeaponsLevel3", "EngineeringBay">>, <<"TerranShipWeaponsLevel1", "Armory">>,
     <<"TerranShipWeaponsLevel2", "Armory">>, <<"TerranShipWeaponsLevel3", "Armory">>,
     <<"TerranVehicleWeaponsLevel1", "Armory">>, <<"TerranVehicleWeaponsLevel2", "Armory">>,
     <<"TerranVehicleWeaponsLevel3", "Armory">>, <<"TerranVehicleAndShipArmorsLevel1", "Armory">>,
     <<"TerranVehicleAndShipArmorsLevel2", "Armory">>, <<"TerranVehicleAndShipArmorsLevel3", "Armory">>,
     <<"WarpGateResearch", "CyberneticsCore">>, <<"ZergFlyerArmorsLevel1", "GreaterSpire">>,
     <<"ZergFlyerArmorsLevel2", "GreaterSpire">>, <<"ZergFlyerArmorsLevel3", "GreaterSpire">>,
     <<"ZergFlyerWeaponsLevel1", "GreaterSpire">>, <<"ZergFlyerWeaponsLevel2", "GreaterSpire">>,
     <<"ZergFlyerWeaponsLevel3", "GreaterSpire">>, <<"ZergGroundArmorsLevel1", "EvolutionChamber">>,
     <<"ZergGroundArmorsLevel2", "EvolutionChamber">>, <<"ZergGroundArmorsLevel3", "EvolutionChamber">>,
     <<"Zerglingattackspeed", "SpawningPool">>, <<"Zerglingmovementspeed", "SpawningPool">>,
     <<"ZergMeleeWeaponsLevel1", "EvolutionChamber">>, <<"ZergMeleeWeaponsLevel2", "EvolutionChamber">>,
     <<"ZergMeleeWeaponsLevel3", "EvolutionChamber">>, <<"ZergMissileWeaponsLevel1", "EvolutionChamber">>,
     <<"ZergMissileWeaponsLevel2", "EvolutionChamber">>, <<"ZergMissileWeaponsLevel3", "EvolutionChamber">> >>

WARPGATE_ABILITIES_pairs ==
  << <<"Zealot", "WarpGateTrainZealot">>, <<"Stalker", "WarpGateTrainStalker">>,
     <<"HighTemplar", "WarpGateTrainHighTemplar">>, <<"DarkTemplar", "WarpGateTrainDarkTemplar">>,
     <<"Sentry", "WarpGateTrainSentry">>, <<"Adept", "TrainWarpAdept">> >>

TECH_ALIAS_pairs ==
  << <<"Assimilator", <<"AssimilatorRich">> >>,
     <<"AssimilatorRich", <<"Assimilator">> >>,
     <<"Barracks", <<"BarracksFlying">> >>,
     <<"BarracksFlying", <<"Barracks">> >>,
     <<"CommandCenter", <<"CommandCenterFlying", "OrbitalCommand", "OrbitalCommandFlying", "PlanetaryFortress">> >>,
     <<"CommandCenterFlying", <<"CommandCenter", "OrbitalCommand", "OrbitalCommandFlying", "PlanetaryFortress">> >>,
     <<"OrbitalCommand", <<"CommandCenter", "CommandCenterFlying", "OrbitalCommandFlying", "PlanetaryFortress">> >>,
     <<"OrbitalCommandFlying", <<"CommandCenter", "CommandCenterFlying", "OrbitalCommand", "PlanetaryFortress">> >>,
     <<"PlanetaryFortress", <<"CommandCenter", "CommandCenterFlying", "OrbitalCommand", "OrbitalCommandFlying">> >>,
     <<"CreepTumorBurrowed", <<"CreepTumor", "CreepTumorQueen">> >>,
     <<"CreepTumorQueen", <<"CreepTumor", "CreepTumorBurrowed">> >>,
     <<"Hatchery", <<"Lair", "Hive">> >>,
     <<"Lair", <<"Hatchery", "Hive">> >>,
     <<"Hive", <<"Hatchery", "Lair">> >>,
     <<"LiberatorAG", <<"Liberator">> >>,
     <<"Liberator", <<"LiberatorAG">> >>,
     <<"Extractor", <<"ExtractorRich">> >>,
     <<"ExtractorRich", <<"Extractor">> >>,
     <<"Spire", <<"GreaterSpire">> >>,
     <<"GreaterSpire", <<"Spire">> >>,
     <<"OverlordTransport", <<"Overlord">> >>,
     <<"Overlord", <<"OverlordTransport">> >>,
     <<"Overseer", <<"OverseerSiegeMode">> >>,
     <<"OverseerSiegeMode", <<"Overseer">> >>,
     <<"FactoryFlying", <<"Factory">> >>,
     <<"StarportFlying", <<"Starport">> >>,
     <<"Reactor", <<"BarracksReactor", "FactoryReactor", "StarportReactor">> >>,
     <<"TechLab", <<"BarracksTechLab", "FactoryTechLab", "StarportTechLab">> >>,
     <<"BarracksReactor", <<"Reactor">> >>,
     <<"BarracksTechLab", <<"TechLab">> >>,
     <<"FactoryReactor", <<"Reactor">> >>,
     <<"FactoryTechLab", <<"TechLab">> >>,
     <<"StarportReactor", <<"Reactor">> >>,
     <<"StarportTechLab", <<"TechLab">> >>,
     <<"PylonOvercharged", <<"Pylon">> >>,
     <<"Pylon", <<"PylonOvercharged">> >>,
     <<"QueenBurrowed", <<"Queen">> >>,
     <<"Queen", <<"QueenBurrowed">> >>,
     <<"Refinery", <<"RefineryRich">> >>,
     <<"RefineryRich", <<"Refinery">> >>,
     <<"SiegeTank", <<"SiegeTankSieged">> >>,
     <<"SiegeTankSieged", <<"SiegeTank">> >>,
     <<"SupplyDepot", <<"SupplyDepotLowered">> >>,
     <<"SupplyDepotLowered", <<"SupplyDepot">> >>,
     <<"Thor", <<"ThorAP">> >>,
     <<"ThorAP", <<"Thor">> >>,
     <<"Viking", <<"VikingFighter", "VikingAssault">> >>,
     <<"VikingFighter", <<"Viking", "VikingAssault">> >>,
     <<"VikingAssault", <<"Viking", "VikingFighter">> >>,
     <<"Gateway", <<"WarpGate">> >>,
     <<"WarpGate", <<"Gateway">> >>,
     <<"WarpPrism", <<"WarpPrismPhasing">> >>,
     <<"WarpPrismPhasing", <<"WarpPrism">> >>,
     <<"WidowMine", <<"WidowMineBurrowed">> >>,
     <<"WidowMineBurrowed", <<"WidowMine">> >> >>

ALL_PRODUCERS_pairs ==
  << <<"Adept", <<"Gateway", "WarpGate">> >>,
     <<"Armory", <<"SCV">> >>,
     <<"Assimilator", <<"Probe">> >>,
     <<"AutoTurret", <<"Raven">> >>,
     <<"Baneling", <<"Zergling">> >>,
     <<"BanelingNest", <<"Drone">> >>,
     <<"Banshee", <<"Starport">> >>,
     <<"Barracks", <<"SCV">> >>,
     <<"Battlecruiser", <<"Starport">> >>,
     <<"BroodLord", <<"Corruptor">> >>,
     <<"Bunker", <<"SCV">> >>,
     <<"Carrier", <<"Stargate">> >>,
     <<"Changeling", <<"Overseer", "OverseerSiegeMode">> >>,
     <<"Colossus", <<"RoboticsFacility">> >>,
     <<"CommandCenter", <<"SCV">> >>,
     <<"Corruptor", <<"Larva">> >>,
     <<"CreepTumor", <<"CreepTumor", "CreepTumorBurrowed", "CreepTumorQueen", "Queen">> >>,
     <<"CreepTumorQueen", <<"Queen">> >>,
     <<"CyberneticsCore", <<"Probe">> >>,
     <<"Cyclone", <<"Factory">> >>,
     <<"DarkShrine", <<"Probe">> >>,
     <<"DarkTemplar", <<"Gateway", "WarpGate">> >>,
     <<"Disruptor", <<"RoboticsFacility">> >>,
     <<"Drone", <<"Larva">> >>,
     <<"EngineeringBay", <<"SCV">> >>,
     <<"EvolutionChamber", <<"Drone">> >>,
     <<"Extractor", <<"Drone">> >>,
     <<"Factory", <<"SCV">> >>,
     <<"FleetBeacon", <<"Probe">> >>,
     <<"Forge", <<"Probe">> >>,
     <<"FusionCore", <<"SCV">> >>,
     <<"Gateway", <<"Probe">> >>,
     <<"Ghost", <<"Barracks">> >>,
     <<"GhostAcademy", <<"SCV">> >>,
     <<"GreaterSpire", <<"Spire">> >>,
     <<"Hatchery", <<"Drone">> >>,
     <<"Hellion", <<"Factory">> >>,
     <<"HellionTank", <<"Factory">> >>,
     <<"HighTemplar", <<"Gateway", "WarpGate">> >>,
     <<"Hive", <<"Lair">> >>,
     <<"Hydralisk", <<"Larva">> >>,
     <<"HydraliskDen", <<"Drone">> >>,
     <<"Immortal", <<"RoboticsFacility">> >>,
     <<"InfestationPit", <<"Drone">> >>,
     <<"Infestor", <<"Larva">> >>,
     <<"Lair", <<"Hatchery">> >>,
     <<"Liberator", <<"Starport">> >>,
     <<"LocustMPFlying", <<"SwarmHostBurrowedMP", "SwarmHostMP">> >>,
     <<"LurkerDenMP", <<"Drone">> >>,
     <<"LurkerMP", <<"Hydralisk">> >>,
     <<"Marauder", <<"Barracks">> >>,
     <<"Marine", <<"Barracks">> >>,
     <<"Medivac", <<"Starport">> >>,
     <<"MissileTurret", <<"SCV">> >>,
     <<"Mothership", <<"Nexus">> >>,
     <<"Mutalisk", <<"Larva">> >>,
     <<"Nexus", <<"Probe">> >>,
     <<"NydusCanal", <<"NydusNetwork">> >>,
     <<"NydusNetwork", <<"Drone">> >>,
     <<"Observer", <<"RoboticsFacility">> >>,
     <<"Oracle", <<"Stargate">> >>,
     <<"OracleStasisTrap", <<"Oracle">> >>,
     <<"OrbitalCommand", <<"CommandCenter">> >>,
     <<"Overlord", <<"Larva">> >>,
     <<"OverlordTransport", <<"Overlord">> >>,
     <<"Overseer", <<"Overlord", "OverlordTransport">> >>,
     <<"Phoenix", <<"Stargate">> >>,
     <<"PhotonCannon", <<"Probe">> >>,
     <<"PlanetaryFortress", <<"CommandCenter">> >>,
     <<"Probe", <<"Nexus">> >>,
     <<"Pylon", <<"Probe">> >>,
     <<"Queen", <<"Hatchery", "Hive", "Lair">> >>,
     <<"Ravager", <<"Roach">> >>,
     <<"Raven", <<"Starport">> >>,
     <<"Reaper", <<"Barracks">> >>,
     <<"Refinery", <<"SCV">> >>,
     <<"Roach", <<"Larva">> >>,
     <<"RoachWarren", <<"Drone">> >>,
     <<"RoboticsBay", <<"Probe">> >>,
     <<"RoboticsFacility", <<"Probe">> >>,
     <<"SCV", <<"CommandCenter", "OrbitalCommand", "PlanetaryFortress">> >>,
     <<"SensorTower", <<"SCV">> >>,
     <<"Sentry", <<"Gateway", "WarpGate">> >>,
     <<"ShieldBattery", <<"Probe">> >>,
     <<"SiegeTank", <<"Factory">> >>,
     <<"SpawningPool", <<"Drone">> >>,
     <<"SpineCrawler", <<"Drone">> >>,
     <<"Spire", <<"Drone">> >>,
     <<"SporeCrawler", <<"Drone">> >>,
     <<"Stalker", <<"Gateway", "WarpGate">> >>,
     <<"Stargate", <<"Probe">> >>,
     <<"Starport", <<"SCV">> >>,
     <<"SupplyDepot", <<"SCV">> >>,
     <<"SwarmHostMP", <<"Larva">> >>,
     <<"Tempest", <<"Stargate">> >>,
     <<"TemplarArchive", <<"Probe">> >>,
     <<"Thor", <<"Factory">> >>,
     <<"TwilightCouncil", <<"Probe">> >>,
     <<"Ultralisk", <<"Larva">> >>,
     <<"UltraliskCavern", <<"Drone">> >>,
     <<"VikingFighter", <<"Starport">> >>,
     <<"Viper", <<"Larva">> >>,
     <<"VoidRay", <<"Stargate">> >>,
     <<"WarpPrism", <<"RoboticsFacility">> >>,
     <<"WidowMine", <<"Factory">> >>,
     <<"Zealot", <<"Gateway", "WarpGate">> >>,
     <<"Zergling", <<"Larva">> >> >>

SPEED_UPGRADES_pairs ==
  << <<"Banshee", <<"BansheeSpeed", 13636000>> >>,
     <<"Zealot", <<"Charge", 15000000>> >>,
     <<"Observer", <<"ObserverGraviticBooster", 20000000>> >>,
     <<"WarpPrism", <<"GraviticDrive", 13000000>> >>,
     <<"Overlord", <<"Overlordspeed", 29150000>> >>,
     <<"Overseer", <<"Overlordspeed", 18015000>> >>,
     <<"Zergling", <<"Zerglingmovementspeed", 16000000>> >>,
     <<"Baneling", <<"CentrificalHooks", 11800000>> >>,
     <<"Roach", <<"GlialReconstitution", 13333334>> >>,
     <<"LurkerMP", <<"DiggingClaws", 11000000>> >> >>

OFF_CREEP_SPEED_UPGRADES_pairs ==
  << <<"Hydralisk", <<"EvolveMuscularAugments", 12500000>> >>,
     <<"Ultralisk", <<"AnabolicSynthesis", 12000000>> >> >>

SPEED_ON_CREEP_pairs ==
  << <<"Queen", 26700000>>, <<"Zergling", 13000000>>,
     <<"Baneling", 13000000>>, <<"Roach", 13000000>>,
     <<"Ravager", 13000000>>, <<"Hydralisk", 13000000>>,
     <<"LurkerMP", 13000000>>, <<"Ultralisk", 13000000>>,
     <<"Infestor", 13000000>>, <<"InfestorTerran", 13000000>>,
     <<"SwarmHostMP", 13000000>>, <<"LocustMP", 14000000>>,
     <<"SpineCrawler", 25000000>>, <<"SporeCrawler", 25000000>> >>

INHIBITOR_ZONE_RADIUS_pairs ==
  << <<"InhibitorZoneSmall", 40000000>>, <<"InhibitorZoneMedium", 50000000>>,
     <<"InhibitorZoneLarge", 60000000>> >>

DAMAGE_BONUS_PER_UPGRADE_pairs ==
  << <<"Probe", << <<"Ground", <<Some(0), <<>> >> >> >> >>,
     <<"Adept", << <<"Ground", <<None, << <<"Light", 1>> >> >> >> >> >>,
     <<"Stalker", << <<"Any", <<None, << <<"Armored", 1>> >> >> >> >> >>,
     <<"DarkTemplar", << <<"Ground", <<Some(5), <<>> >> >> >> >>,
     <<"Archon", << <<"Any", <<Some(3), << <<"Biological", 1>> >> >> >> >> >>,
     <<"Immortal", << <<"Ground", <<Some(2), << <<"Armored", 3>> >> >> >> >> >>,
     <<"Colossus", << <<"Ground", <<None, << <<"Light", 1>> >> >> >> >> >>,
     <<"Oracle", << <<"Ground", <<Some(0), <<>> >> >> >> >>,
     <<"Tempest", << <<"Ground", <<Some(4), <<>> >> >>, <<"Air", <<Some(3), << <<"Massive", 2>> >> >> >> >> >>,
     <<"SCV", << <<"Ground", <<Some(0), <<>> >> >> >> >>,
     <<"Marauder", << <<"Ground", <<None, << <<"Armored", 1>> >> >> >> >> >>,
     <<"Ghost", << <<"Any", <<None, << <<"Light", 1>> >> >> >> >> >>,
     <<"Hellion", << <<"Ground", <<None, << <<"Light", 1>> >> >> >> >> >>,
     <<"HellionTank", << <<"Ground", <<Some(2), << <<"Light", 1>> >> >> >> >> >>,
     <<"Cyclone", << <<"Any", <<Some(2), <<>> >> >> >> >>,
     <<"SiegeTank", << <<"Ground", <<Some(2), << <<"Armored", 1>> >> >> >> >> >>,
     <<"SiegeTankSieged", << <<"Ground", <<Some(4), << <<"Armored", 1>> >> >> >> >> >>,
     <<"Thor", << <<"Ground", <<Some(3), <<>> >> >>, <<"Air", <<None, << <<"Light", 1>> >> >> >> >> >>,
     <<"ThorAP", << <<"Ground", <<Some(3), <<>> >> >>, <<"Air", <<Some(3), << <<"Massive", 1>> >> >> >> >> >>,
     <<"VikingAssault", << <<"Ground", <<None, << <<"Mechanical", 1>> >> >> >> >> >>,
     <<"LiberatorAG", << <<"Ground", <<Some(5), <<>> >> >> >> >>,
     <<"Drone", << <<"Ground", <<Some(0), <<>> >> >> >> >>,
     <<"Baneling", << <<"Ground", <<Some(2), << <<"Light", 2>>, <<"Structure", 3>> >> >> >> >> >>,
     <<"BanelingBurrowed", << <<"Ground", <<Some(2), << <<"Light", 2>>, <<"Structure", 3>> >> >> >> >> >>,
     <<"BanelingCocoon", << <<"Ground", <<Some(2), << <<"Light", 2>>, <<"Structure", 3>> >> >> >> >> >>,
     <<"Roach", << <<"Ground", <<Some(2), <<>> >> >> >> >>,
     <<"Ravager", << <<"Ground", <<Some(2), <<>> >> >> >> >>,
     <<"RavagerCocoon", << <<"Ground", <<Some(2), <<>> >> >> >> >>,
     <<"LurkerMPBurrowed", << <<"Ground", <<Some(2), << <<"Armored", 1>> >> >> >> >> >>,
     <<"Ultralisk", << <<"Ground", <<Some(3), <<>> >> >> >> >>,
     <<"Corruptor", << <<"Air", <<None, << <<"Massive", 1>> >> >> >> >> >>,
     <<"BroodLord", << <<"Ground", <<Some(2), <<>> >> >> >> >> >>

MISSED_WEAPONS_pairs ==
  << <<"Baneling",
        <<[target |-> "Ground", damage |-> 20, damage_bonus |-> << <<"Light", 15>>, <<"Structure", 60>> >>, attacks |-> 1, range |-> 22000000, speed |-> 10000000]>> >>,
     <<"Battlecruiser",
        <<[target |-> "Ground", damage |-> 8, damage_bonus |-> <<>>, attacks |-> 1, range |-> 60000000, speed |-> 2240000],
          [target |-> "Air", damage |-> 5, damage_bonus |-> <<>>, attacks |-> 1, range |-> 60000000, speed |-> 2240000]>> >>,
     <<"Sentry",
        <<[target |-> "Any", damage |-> 6, damage_bonus |-> <<>>, attacks |-> 1, range |-> 50000000, speed |-> 9940000]>> >>,
     <<"VoidRay",
        <<[target |-> "Any", damage |-> 6, damage_bonus |-> <<>>, attacks |-> 1, range |-> 60000000, speed |-> 5040000]>> >>,
     <<"Bunker",
        <<[target |-> "Any", damage |-> 6, damage_bonus |-> <<>>, attacks |-> 4, range |-> 60000000, speed |-> 8540000]>> >>,
     <<"Carrier",
        <<[target |-> "Any", damage |-> 5, damage_bonus |-> <<>>, attacks |-> 16, range |-> 80000000, speed |-> 29960000]>> >>,
     <<"Oracle",
        <<[target |-> "Ground", damage |-> 15, damage_bonus |-> << <<"Light", 7>> >>, attacks |-> 1, range |-> 40000000, speed |-> 8540000]>> >>,
     <<"WidowMineBurrowed",
        <<[target |-> "Any", damage |-> 125, damage_bonus |-> <<>>, attacks |-> 1, range |-> 50000000, speed |-> 10000000]>> >> >>

SPEED_BUFFS_pairs(t) ==
  << <<"Stimpack", 15000000>>, <<"StimpackMarauder", 15000000>>,
     <<"ChargeUp", IF t = Windows THEN 28000000 ELSE 22000000>>,
     <<"DutchMarauderSlow", 5000000>>, <<"TimeWarpProduction", 5000000>>,
     <<"FungalGrowth", 2500000>>, <<"InhibitorZoneTemporalField", 6500000>> >>

(***************************************************************************)
(* The initializer of each lazy_static: the value its block evaluates to.  *)
(***************************************************************************)
\* Variant of RACE_VALUES whose Protoss profile leaves rich_gas at its default.
RACE_VALUES_partial ==
  hashmap([RACE_VALUES_pairs EXCEPT
             ![3] = <<"Protoss", [RACE_VALUES_pairs[3][2] EXCEPT !.rich_gas = "NotAUnit"]>>])

RACE_VALUES == hashmap(RACE_VALUES_pairs)

\* Variant of TECH_ALIAS whose Hatchery entry omits Hive.
TECH_ALIAS_lair_only ==
  hashmap([TECH_ALIAS_pairs EXCEPT ![12] = <<"Hatchery", <<"Lair">> >>])

\* Variant of TECH_ALIAS with a one-sided entry: AssimilatorRich, listed by
\* Assimilator, lists Refinery instead.
TECH_ALIAS_one_sided ==
  hashmap([TECH_ALIAS_pairs EXCEPT ![2] = <<"AssimilatorRich", <<"Refinery">> >>])

TECH_ALIAS == hashmap(TECH_ALIAS_pairs)

UNIT_ALIAS == hashmap(UNIT_ALIAS_pairs)

\* Variant of TECH_REQUIREMENTS with a requirement written the wrong way
\* round as well: SupplyDepot requires Barracks.
TECH_REQUIREMENTS_cyclic ==
  hashmap(Append(TECH_REQUIREMENTS_pairs, <<"SupplyDepot", "Barracks">>))

TECH_REQUIREMENTS == hashmap(TECH_REQUIREMENTS_pairs)

\* Variant of PRODUCERS without the Armory entry.
PRODUCERS_no_armory ==
  hashmap([PRODUCERS_pairs EXCEPT ![2] = <<"Adept", "Gateway">>])

PRODUCERS == hashmap(PRODUCERS_pairs)

\* Variant of ALL_PRODUCERS whose Marine entry also lists Factory.
ALL_PRODUCERS_stray ==
  hashmap([ALL_PRODUCERS_pairs EXCEPT ![52] = <<"Marine", <<"Barracks", "Factory">> >>])

\* Variant of ALL_PRODUCERS whose first entry lists only the alias of the
\* canonical producer.
ALL_PRODUCERS_alias_only ==
  hashmap([ALL_PRODUCERS_pairs EXCEPT ![1] = <<"Adept", <<"WarpGate">> >>])

ALL_PRODUCERS == hashmap(ALL_PRODUCERS_pairs)

\* Variant of RESEARCHERS whose windows block also moves an existing entry.
RESEARCHERS_two(t) ==
  LET map == hashmap(RESEARCHERS_pairs)
  IN  IF t = Windows
      THEN insert(insert(map, "EnhancedShockwaves", "GhostAcademy"),
                  "PersonalCloaking", "Ghost")
      ELSE map

RESEARCHERS(t) ==
  LET map == hashmap(RESEARCHERS_pairs)
  IN  IF t = Windows THEN insert(map, "EnhancedShockwaves", "GhostAcademy") ELSE map

\* Variant of BonusesForTarget that files every entry under Any as well.
BonusesForTarget_any(entries) ==
  hashmap([i \in DOMAIN entries |->
             <<entries[i][1], <<entries[i][2][1], hashmap(entries[i][2][2])>> >>]
          \o [i \in DOMAIN entries |->
             <<"Any", <<entries[i][2][1], hashmap(entries[i][2][2])>> >>])

\* A BonusesForTarget literal: the inner hashmap! of every target entry.
BonusesForTarget(entries) ==
  hashmap([i \in DOMAIN entries |->
             <<entries[i][1], <<entries[i][2][1], hashmap(entries[i][2][2])>> >>])

DAMAGE_BONUS_PER_UPGRADE ==
  hashmap([i \in DOMAIN DAMAGE_BONUS_PER_UPGRADE_pairs |->
             <<DAMAGE_BONUS_PER_UPGRADE_pairs[i][1],
               BonusesForTarget(DAMAGE_BONUS_PER_UPGRADE_pairs[i][2])>>])

\* Variant of SPEED_UPGRADES that tests cfg!(unix).
SPEED_UPGRADES_unix(t) ==
  LET map == hashmap(SPEED_UPGRADES_pairs)
  IN  IF t = Unix
      THEN insert(insert(map, "Medivac", <<"MedivacRapidDeployment", 11800000>>),
                  "VoidRay", <<"VoidRaySpeedUpgrade", 13280000>>)
      ELSE map

SPEED_UPGRADES(t) ==
  LET map == hashmap(SPEED_UPGRADES_pairs)
  IN  IF t = Windows
      THEN insert(insert(map, "Medivac", <<"MedivacRapidDeployment", 11800000>>),
                  "VoidRay", <<"VoidRaySpeedUpgrade", 13280000>>)
      ELSE map

\* Variant of OFF_CREEP_SPEED_UPGRADES that also takes in the entries of the
\* SPEED_UPGRADES literal.
OFF_CREEP_SPEED_UPGRADES_merged ==
  hashmap(SPEED_UPGRADES_pairs \o OFF_CREEP_SPEED_UPGRADES_pairs)

OFF_CREEP_SPEED_UPGRADES == hashmap(OFF_CREEP_SPEED_UPGRADES_pairs)

\* Variant of SPEED_ON_CREEP that gives Queen the multiplier of the other units.
SPEED_ON_CREEP_flat ==
  hashmap([SPEED_ON_CREEP_pairs EXCEPT ![1] = <<"Queen", 13000000>>])

SPEED_ON_CREEP == hashmap(SPEED_ON_CREEP_pairs)

\* Variant of WARPGATE_ABILITIES with an entry for a unit no WarpGate trains.
WARPGATE_ABILITIES_immortal ==
  hashmap(Append(WARPGATE_ABILITIES_pairs, <<"Immortal", "TrainWarpAdept">>))

WARPGATE_ABILITIES == hashmap(WARPGATE_ABILITIES_pairs)

MISSED_WEAPONS == hashmap(MISSED_WEAPONS_pairs)

\* Variant of INHIBITOR_ZONE_RADIUS without the #[cfg(windows)] on its block.
INHIBITOR_ZONE_RADIUS_uncfg(t) ==
  LET map == hashmap(INHIBITOR_ZONE_RADIUS_pairs)
  IN  insert(insert(insert(map, "InhibitorZoneFlyingSmall", 40000000),
                    "InhibitorZoneFlyingMedium", 50000000),
             "InhibitorZoneFlyingLarge", 60000000)

INHIBITOR_ZONE_RADIUS(t) ==
  LET map == hashmap(INHIBITOR_ZONE_RADIUS_pairs)
  IN  IF t = Windows
      THEN insert(insert(insert(map, "InhibitorZoneFlyingSmall", 40000000),
                         "InhibitorZoneFlyingMedium", 50000000),
                  "InhibitorZoneFlyingLarge", 60000000)
      ELSE map

SPEED_BUFFS(t) ==
  LET map == hashmap(SPEED_BUFFS_pairs(t))
  IN  IF t = Windows
      THEN insert(insert(insert(map, "InhibitorZoneFlyingTemporalField", 6500000),
                         "AccelerationZoneTemporalField", 13500000),
                  "AccelerationZoneFlyingTemporalField", 13500000)
      ELSE map

\* The statics declared in the lazy_static! block.
Statics ==
  { "RACE_VALUES", "TECH_ALIAS", "UNIT_ALIAS", "TECH_REQUIREMENTS", "PRODUCERS",
    "ALL_PRODUCERS", "RESEARCHERS", "DAMAGE_BONUS_PER_UPGRADE", "SPEED_UPGRADES",
    "OFF_CREEP_SPEED_UPGRADES", "SPEED_ON_CREEP", "WARPGATE_ABILITIES",
    "MISSED_WEAPONS", "INHIBITOR_ZONE_RADIUS", "SPEED_BUFFS" }

\* initialize[t][s]: what the initializer of static s returns when the crate
\* is compiled for target t.
initialize ==
  [t \in Targets |-> [s \in Statics |->
     CASE s = "RACE_VALUES" -> RACE_VALUES
       [] s = "TECH_ALIAS" -> TECH_ALIAS
       [] s = "UNIT_ALIAS" -> UNIT_ALIAS
       [] s = "TECH_REQUIREMENTS" -> TECH_REQUIREMENTS
       [] s = "PRODUCERS" -> PRODUCERS
       [] s = "ALL_PRODUCERS" -> ALL_PRODUCERS
       [] s = "RESEARCHERS" -> RESEARCHERS(t)
       [] s = "DAMAGE_BONUS_PER_UPGRADE" -> DAMAGE_BONUS_PER_UPGRADE
       [] s = "SPEED_UPGRADES" -> SPEED_UPGRADES(t)
       [] s = "OFF_CREEP_SPEED_UPGRADES" -> OFF_CREEP_SPEED_UPGRADES
       [] s = "SPEED_ON_CREEP" -> SPEED_ON_CREEP
       [] s = "WARPGATE_ABILITIES" -> WARPGATE_ABILITIES
       [] s = "MISSED_WEAPONS" -> MISSED_WEAPONS
       [] s = "INHIBITOR_ZONE_RADIUS" -> INHIBITOR_ZONE_RADIUS(t)
       [] s = "SPEED_BUFFS" -> SPEED_BUFFS(t)]]

(***************************************************************************)
(* State.                                                                  *)
(*   target  the cfg the crate was compiled for                            *)
(*   once    per static, the state of its Once                             *)
(*   data    per static, the HashMap it holds (empty until initialized)    *)
(*   walk    the identifiers a caller has visited while following          *)
(*           TECH_REQUIREMENTS, oldest first                               *)
(*   done    the caller's walk has reached None                            *)
(*   last    the last lookup a caller made and its result, <<>> if none:   *)
(*           <<unit, target type, result>> or <<static, key, result>>      *)
(*   threads per thread, where it stands in a dereference of a static, the *)
(*           `map` local of the initializer it runs, and the table it saw  *)
(*           through the last reference it obtained                        *)
(*   runs    per static, how many times its initializer has been entered   *)
(***************************************************************************)
VARIABLES target, once, data, walk, done, last, threads, runs

vars == <<target, once, data, walk, done, last, threads, runs>>

NumThreads == 2

Threads == 1..NumThreads

Idle == [pc |-> "idle", static |-> "none", local |-> HashMap_new, seen |-> <<>>]

Incomplete == "INCOMPLETE"

Complete == "COMPLETE"

\* Variant of deref in which the initializer of ALL_PRODUCERS yields its
\* entries only if PRODUCERS has been built before it.
deref_order_dependent(s) ==
  IF once[s] = Complete THEN data[s]
  ELSE IF s = "ALL_PRODUCERS" /\ once["PRODUCERS"] # Complete
       THEN HashMap_new
       ELSE initialize[target][s]

\* Deref of a lazy static: the value seen by the caller.  The first deref
\* runs the initializer, later ones read what it stored.
deref(s) == IF once[s] = Complete THEN data[s] ELSE initialize[target][s]

\* The effect of a deref on the static itself.
Forced(s) ==
  /\ once' = [once EXCEPT ![s] = Complete]
  /\ data' = [data EXCEPT ![s] = deref(s)]

Init ==
  /\ target \in Targets
  /\ once = [s \in Statics |-> Incomplete]
  /\ data = [s \in Statics |-> HashMap_new]
  /\ walk = <<>>
  /\ done = FALSE
  /\ last = <<>>
  /\ threads = [th \in Threads |-> Idle]
  /\ runs = [s \in Statics |-> 0]

\* First access to static s.
Deref(s) ==
  /\ once[s] = Incomplete
  /\ Forced(s)
  /\ UNCHANGED <<target, walk, done, last, threads, runs>>

Next == \E s \in Statics : Deref(s)

Spec == Init /\ [][Next]_vars

(***************************************************************************)
(* A caller that follows TECH_REQUIREMENTS from a unit until the lookup    *)
(* returns None, one `TECH_REQUIREMENTS.get(unit_type)` per step.          *)
(***************************************************************************)
MaxHops == 64

\* The number of lookups that returned Some so far.
hops == IF walk = <<>> THEN 0 ELSE Len(walk) - 1

WalkStart(u) ==
  /\ walk = <<>>
  /\ walk' = <<u>>
  /\ UNCHANGED <<target, once, data, done, last, threads, runs>>

WalkStep ==
  /\ walk # <<>>
  /\ ~done
  /\ hops < MaxHops
  /\ Forced("TECH_REQUIREMENTS")
  /\ LET requirement == get(deref("TECH_REQUIREMENTS"), walk[Len(walk)])
     IN  IF requirement = None
         THEN done' = TRUE /\ walk' = walk
         ELSE done' = FALSE /\ walk' = Append(walk, requirement[1])
  /\ UNCHANGED <<target, last, threads, runs>>

NextWalk == (\E u \in UnitTypeId : WalkStart(u)) \/ WalkStep

SpecWalk == Init /\ [][NextWalk]_vars

(***************************************************************************)
(* A caller that looks up the damage bonus of a unit against a target      *)
(* type: the BonusesForTarget of the unit, then the entry of the type.     *)
(***************************************************************************)
damage_bonus(map, unit, target_type) ==
  LET bonuses == get(map, unit)
  IN  IF bonuses = None THEN None ELSE get(bonuses[1], target_type)

QueryDamageBonus(u, tt) ==
  /\ Forced("DAMAGE_BONUS_PER_UPGRADE")
  /\ last' = <<u, tt, damage_bonus(deref("DAMAGE_BONUS_PER_UPGRADE"), u, tt)>>
  /\ UNCHANGED <<target, walk, done, threads, runs>>

NextDamage == \E u \in UnitTypeId, tt \in TargetType : QueryDamageBonus(u, tt)

SpecDamage == Init /\ [][NextDamage]_vars

(***************************************************************************)
(* A caller that looks up keys in one static: `STATIC.get(&key)`.           *)
(***************************************************************************)
\* The type of the keys of static s.
KeyType(s) ==
  CASE s = "RACE_VALUES" -> Race \cup {"Random"}
    [] s = "RESEARCHERS" -> UpgradeId
    [] s = "SPEED_BUFFS" -> BuffId
    [] OTHER -> UnitTypeId

Query(s, k) ==
  /\ IF last = <<>> THEN TRUE ELSE last[1] = s
  /\ Forced(s)
  /\ last' = <<s, k, get(deref(s), k)>>
  /\ UNCHANGED <<target, walk, done, threads, runs>>

NextQuery == \E s \in Statics : \E k \in KeyType(s) : Query(s, k)

SpecQuery == Init /\ [][NextQuery]_vars

(***************************************************************************)
(* Threads that dereference the statics whose initializer is a block:      *)
(* `let mut map = hashmap![..]; #[cfg(windows)] { map.insert(..); } map`.  *)
(* lazy_static! guards each static with a Once: the first caller runs the  *)
(* initializer, a caller that arrives while it runs waits, and a caller    *)
(* that finds the Once complete takes the reference.                       *)
(***************************************************************************)
Running == "RUNNING"

BlockStatics == {"RESEARCHERS", "SPEED_UPGRADES", "INHIBITOR_ZONE_RADIUS", "SPEED_BUFFS"}

\* `let mut map = hashmap![..]` of the block of static s.
map_literal(t, s) ==
  CASE s = "RESEARCHERS" -> hashmap(RESEARCHERS_pairs)
    [] s = "SPEED_UPGRADES" -> hashmap(SPEED_UPGRADES_pairs)
    [] s = "INHIBITOR_ZONE_RADIUS" -> hashmap(INHIBITOR_ZONE_RADIUS_pairs)
    [] s = "SPEED_BUFFS" -> hashmap(SPEED_BUFFS_pairs(t))

\* Variant of call_once that lets a caller in while another one is running
\* the initializer.
call_once_racy(s) == once[s] # Complete

\* Variant of call_once without the Once: every caller runs the initializer.
call_once_unguarded(s) == TRUE

\* Once::call_once runs the closure only if the Once is incomplete.
call_once(s) == once[s] = Incomplete

\* Thread th starts `STATIC.deref()`.
Call(th, s) ==
  /\ threads[th].pc = "idle"
  /\ threads' = [threads EXCEPT ![th].pc = "call", ![th].static = s]
  /\ UNCHANGED <<target, once, data, walk, done, last, runs>>

\* Thread th finds the Once incomplete and becomes the one that initializes.
Enter(th) ==
  LET s == threads[th].static
  IN  /\ threads[th].pc = "call"
      /\ call_once(s)
      /\ once' = [once EXCEPT ![s] = Running]
      /\ runs' = [runs EXCEPT ![s] = @ + 1]
      /\ threads' = [threads EXCEPT ![th].pc = "literal"]
      /\ UNCHANGED <<target, data, walk, done, last>>

\* The initializer builds the literal into its local `map`.
BuildLiteral(th) ==
  /\ threads[th].pc = "literal"
  /\ threads' = [threads EXCEPT ![th].pc = "cfg",
                                 ![th].local = map_literal(target, threads[th].static)]
  /\ UNCHANGED <<target, once, data, walk, done, last, runs>>

\* The initializer runs the cfg(windows) block, if compiled in, on `map`.
CfgBlock(th) ==
  /\ threads[th].pc = "cfg"
  /\ threads' = [threads EXCEPT ![th].pc = "store",
                                 ![th].local = initialize[target][threads[th].static]]
  /\ UNCHANGED <<target, once, data, walk, done, last, runs>>

\* The block's value `map` is moved into the static and the Once completes.
Store(th) ==
  LET s == threads[th].static
  IN  /\ threads[th].pc = "store"
      /\ data' = [data EXCEPT ![s] = threads[th].local]
      /\ once' = [once EXCEPT ![s] = Complete]
      /\ threads' = [threads EXCEPT ![th].pc = "call", ![th].local = HashMap_new]
      /\ UNCHANGED <<target, walk, done, last, runs>>

\* Thread th finds the Once complete and reads the table by reference.
Read(th) ==
  LET s == threads[th].static
  IN  /\ threads[th].pc = "call"
      /\ once[s] = Complete
      /\ threads' = [threads EXCEPT ![th] = [Idle EXCEPT !.seen = <<s, data[s]>>]]
      /\ UNCHANGED <<target, once, data, walk, done, last, runs>>

NextThreads ==
  \E th \in Threads :
    \/ \E s \in BlockStatics : Call(th, s)
    \/ Enter(th)
    \/ BuildLiteral(th)
    \/ CfgBlock(th)
    \/ Store(th)
    \/ Read(th)

SpecThreads == Init /\ [][NextThreads]_vars

(***************************************************************************)
(* Query surface: single lookups in an initialized table.                  *)
(***************************************************************************)
Ready(s) == once[s] = Complete

alias_pair(unit) == get(data["UNIT_ALIAS"], unit)

alias_group(unit) ==
  LET others == get(data["TECH_ALIAS"], unit)
  IN  IF others = None THEN {} ELSE Range(others[1])

canonical_producer(unit) == get(data["PRODUCERS"], unit)

all_producers(unit) ==
  LET producers == get(data["ALL_PRODUCERS"], unit)
  IN  IF producers = None THEN {} ELSE Range(producers[1])

Other(t) == IF t = Windows THEN Unix ELSE Windows

\* The keys on which two maps answer differently.
DiffKeys(a, b) == {k \in (DOMAIN a) \cup (DOMAIN b) : get(a, k) # get(b, k)}

FlyingZones ==
  {"InhibitorZoneFlyingSmall", "InhibitorZoneFlyingMedium", "InhibitorZoneFlyingLarge"}

NonFlying(zone) ==
  CASE zone = "InhibitorZoneFlyingSmall" -> "InhibitorZoneSmall"
    [] zone = "InhibitorZoneFlyingMedium" -> "InhibitorZoneMedium"
    [] zone = "InhibitorZoneFlyingLarge" -> "InhibitorZoneLarge"

(***************************************************************************)
(* C1.                                                                     *)
(***************************************************************************)
\* C1: alias-pair symmetry.  Once UNIT_ALIAS is built, every unit K whose
\* alias_pair is B has alias_pair(B) = K.
C1_AliasPairSymmetry ==
  Ready("UNIT_ALIAS") =>
    \A k \in DOMAIN data["UNIT_ALIAS"] : alias_pair(data["UNIT_ALIAS"][k]) = Some(k)

C3_ProducerConsistency ==
  (Ready("PRODUCERS") /\ Ready("ALL_PRODUCERS")) =>
    \A k \in DOMAIN data["PRODUCERS"] :
      /\ k \in DOMAIN data["ALL_PRODUCERS"]
      /\ data["PRODUCERS"][k] \in all_producers(k)

\* Both tables are built and a unit with several producers is answered.
C3_Witness ==
  /\ Ready("PRODUCERS") /\ Ready("ALL_PRODUCERS")
  /\ canonical_producer("Zealot") = Some("Gateway")
  /\ all_producers("Zealot") = {"Gateway", "WarpGate"}

(***************************************************************************)
(* C4.                                                                     *)
(***************************************************************************)
\* C4: tech-requirement acyclicity.  A walk that starts at any unit and
\* repeatedly applies tech_requirement never visits an identifier twice and
\* makes no more hops than TECH_REQUIREMENTS has entries, so it is never cut
\* short and ends when the lookup returns None.
C4_TechRequirementAcyclic ==
  /\ \A i, j \in DOMAIN walk : i # j => walk[i] # walk[j]
  /\ hops <= Cardinality(DOMAIN TECH_REQUIREMENTS)
  /\ done => get(data["TECH_REQUIREMENTS"], walk[Len(walk)]) = None

\* A walk over the longest chain has ended: BroodLord, GreaterSpire, Hive,
\* InfestationPit, Lair, SpawningPool.
C4_Witness ==
  /\ done
  /\ walk = <<"BroodLord", "GreaterSpire", "Hive", "InfestationPit", "Lair", "SpawningPool">>

(***************************************************************************)
(* C5.                                                                     *)
(***************************************************************************)
\* The literal of UNIT_ALIAS is consistent: no key is written twice, no unit
\* is paired with itself and every written pair is also written reversed.
UnitAliasLiteralConsistent ==
  /\ \A i, j \in DOMAIN UNIT_ALIAS_pairs :
       UNIT_ALIAS_pairs[i][1] = UNIT_ALIAS_pairs[j][1] => i = j
  /\ \A i \in DOMAIN UNIT_ALIAS_pairs :
       /\ UNIT_ALIAS_pairs[i][1] # UNIT_ALIAS_pairs[i][2]
       /\ <<UNIT_ALIAS_pairs[i][2], UNIT_ALIAS_pairs[i][1]>> \in Range(UNIT_ALIAS_pairs)

\* The literal of TECH_ALIAS is consistent: every group is a clique.
TechAliasLiteralConsistent ==
  \A i \in DOMAIN TECH_ALIAS_pairs :
    \A m \in Range(TECH_ALIAS_pairs[i][2]) :
      \E j \in DOMAIN TECH_ALIAS_pairs :
        /\ TECH_ALIAS_pairs[j][1] = m
        /\ ((Range(TECH_ALIAS_pairs[i][2]) \ {m}) \cup {TECH_ALIAS_pairs[i][1]})
             \subseteq Range(TECH_ALIAS_pairs[j][2])

\* The producer literals are consistent: every canonical producer is written
\* in the ALL_PRODUCERS entry of its unit.
ProducersLiteralConsistent ==
  \A i \in DOMAIN PRODUCERS_pairs :
    \E j \in DOMAIN ALL_PRODUCERS_pairs :
      /\ ALL_PRODUCERS_pairs[j][1] = PRODUCERS_pairs[i][1]
      /\ PRODUCERS_pairs[i][2] \in Range(ALL_PRODUCERS_pairs[j][2])

\* C5: fail-fast construction.  The initializer of a table completes (its
\* Once reaches COMPLETE and the table can be queried) only if the literal
\* data it was given is consistent.
C5_FailFastConstruction ==
  /\ Ready("UNIT_ALIAS") => UnitAliasLiteralConsistent
  /\ Ready("TECH_ALIAS") => TechAliasLiteralConsistent
  /\ (Ready("PRODUCERS") \/ Ready("ALL_PRODUCERS")) => ProducersLiteralConsistent

(***************************************************************************)
(* C6.                                                                     *)
(***************************************************************************)
\* C6: alias-pair key uniqueness.  Once UNIT_ALIAS is built, every pair
\* (K, V) written in its literal is answered as alias_pair(K) = V: no
\* written pair was overwritten during construction.
C6_AliasPairNoLostEntry ==
  Ready("UNIT_ALIAS") =>
    \A i \in DOMAIN UNIT_ALIAS_pairs :
      alias_pair(UNIT_ALIAS_pairs[i][1]) = Some(UNIT_ALIAS_pairs[i][2])

(***************************************************************************)
(* C7.                                                                     *)
(***************************************************************************)
\* The bonus written in the literal for exactly this unit and target type.
WrittenBonus(u, tt) ==
  { DAMAGE_BONUS_PER_UPGRADE_pairs[i][2][j][2] :
      <<i, j>> \in { <<i, j>> \in (DOMAIN DAMAGE_BONUS_PER_UPGRADE_pairs) \X (1..2) :
                      /\ DAMAGE_BONUS_PER_UPGRADE_pairs[i][1] = u
                      /\ j \in DOMAIN DAMAGE_BONUS_PER_UPGRADE_pairs[i][2]
                      /\ DAMAGE_BONUS_PER_UPGRADE_pairs[i][2][j][1] = tt } }

\* C7: exact-match damage bonus.  A damage_bonus(unit, target_type) lookup
\* returns an entry only when one is written for exactly that unit and
\* target type, and then that entry, with no fallback between Any and
\* Ground/Air; (Immortal, Ground) is flat 2 with Armored -> 3, and
\* (Immortal, Air) and (Immortal, Any) are absent.
C7_DamageBonusExactMatch ==
  last # <<>> =>
    /\ (last[3] # None) <=> (WrittenBonus(last[1], last[2]) # {})
    /\ last[3] # None =>
         \E w \in WrittenBonus(last[1], last[2]) :
           /\ last[3][1][1] = w[1]
           /\ last[3][1][2] = hashmap(w[2])
    /\ (last[1] = "Immortal" /\ last[2] = "Ground") =>
         last[3] = Some(<<Some(2), ("Armored" :> 3)>>)
    /\ (last[1] = "Immortal" /\ last[2] \in {"Air", "Any"}) => last[3] = None

\* The lookup (Immortal, Ground) has been answered with an entry.
C7_Witness ==
  /\ last # <<>>
  /\ last[1] = "Immortal" /\ last[2] = "Ground"
  /\ last[3] # None

(***************************************************************************)
(* C8.                                                                     *)
(***************************************************************************)
\* C8: variant isolation of inhibitor zones.  Compiled for unix, no flying
\* inhibitor zone is in INHIBITOR_IDS or is a key of INHIBITOR_ZONE_RADIUS;
\* compiled for windows, each flying zone is in both and its radius equals
\* the radius of the non-flying zone of the same size.
C8_InhibitorVariantIsolation ==
  /\ target = Unix =>
       /\ FlyingZones \cap Range(INHIBITOR_IDS(target)) = {}
       /\ Ready("INHIBITOR_ZONE_RADIUS") =>
            FlyingZones \cap DOMAIN data["INHIBITOR_ZONE_RADIUS"] = {}
  /\ target = Windows =>
       /\ FlyingZones \subseteq Range(INHIBITOR_IDS(target))
       /\ Ready("INHIBITOR_ZONE_RADIUS") =>
            \A z \in FlyingZones :
              /\ z \in DOMAIN data["INHIBITOR_ZONE_RADIUS"]
              /\ NonFlying(z) \in DOMAIN data["INHIBITOR_ZONE_RADIUS"]
              /\ data["INHIBITOR_ZONE_RADIUS"][z] = data["INHIBITOR_ZONE_RADIUS"][NonFlying(z)]

\* INHIBITOR_ZONE_RADIUS is built in the windows build and holds a flying zone.
C8_Witness ==
  /\ target = Windows
  /\ Ready("INHIBITOR_ZONE_RADIUS")
  /\ get(data["INHIBITOR_ZONE_RADIUS"], "InhibitorZoneFlyingLarge") = Some(60000000)

(***************************************************************************)
(* C9.                                                                     *)
(***************************************************************************)
\* What tells the full-feature (windows) form of a variant-dependent datum
\* from the reduced-feature (unix) form.
HoldsVariant(s, v) ==
  LET map == data[s]
      extra == CASE s = "RESEARCHERS" -> {"EnhancedShockwaves"}
                 [] s = "SPEED_UPGRADES" -> {"Medivac", "VoidRay"}
                 [] s = "INHIBITOR_ZONE_RADIUS" -> FlyingZones
                 [] s = "SPEED_BUFFS" -> {"InhibitorZoneFlyingTemporalField",
                                          "AccelerationZoneTemporalField",
                                          "AccelerationZoneFlyingTemporalField"}
  IN  /\ IF v = Windows THEN extra \subseteq DOMAIN map ELSE extra \cap DOMAIN map = {}
      /\ s = "SPEED_BUFFS" =>
           get(map, "ChargeUp") = Some(IF v = Windows THEN 28000000 ELSE 22000000)

VariantStatics == {"RESEARCHERS", "SPEED_UPGRADES", "INHIBITOR_ZONE_RADIUS", "SPEED_BUFFS"}

\* C9: no variant mixing.  In every reachable state there is one variant v
\* such that ANTI_ARMOR_BUFF, INHIBITOR_IDS and every built variant-dependent
\* table hold the v-variant data.
C9_NoVariantMixing ==
  \E v \in Targets :
    /\ ANTI_ARMOR_BUFF(target) =
         (IF v = Windows THEN "RavenShredderMissileArmorReductionUISubtruct"
          ELSE "RavenShredderMissileArmorReduction")
    /\ Len(INHIBITOR_IDS(target)) = (IF v = Windows THEN 6 ELSE 3)
    /\ \A s \in VariantStatics : Ready(s) => HoldsVariant(s, v)

\* All four variant-dependent tables are built.
C9_Witness ==
  /\ \A s \in VariantStatics : Ready(s)
  /\ "Medivac" \in DOMAIN data["SPEED_UPGRADES"]
  /\ "EnhancedShockwaves" \in DOMAIN data["RESEARCHERS"]

(***************************************************************************)
(* C10.                                                                    *)
(***************************************************************************)
\* C10 (as stated): extent of the variant axis.  The two builds differ only
\* in the inhibitor-zone radii, in speed-buff entries and in exactly one
\* RESEARCHERS entry; every other built table, SPEED_UPGRADES included, is
\* what the other build would have built.
C10_VariantAxisExtent ==
  /\ \A s \in Statics \ {"INHIBITOR_ZONE_RADIUS", "SPEED_BUFFS", "RESEARCHERS"} :
       Ready(s) => data[s] = initialize[Other(target)][s]
  /\ Ready("RESEARCHERS") =>
       Cardinality(DiffKeys(data["RESEARCHERS"], initialize[Other(target)]["RESEARCHERS"])) = 1

\* C10 (amended): the two builds differ in ANTI_ARMOR_BUFF, in the
\* inhibitor-zone identifiers and radii, in speed-buff entries, in exactly
\* one RESEARCHERS entry (EnhancedShockwaves) and in exactly two
\* SPEED_UPGRADES entries (Medivac and VoidRay, windows only); every other
\* built table is what the other build would have built.
C10_VariantAxisExtentAmended ==
  /\ ANTI_ARMOR_BUFF(target) # ANTI_ARMOR_BUFF(Other(target))
  /\ INHIBITOR_IDS(target) # INHIBITOR_IDS(Other(target))
  /\ \A s \in Statics \ VariantStatics :
       Ready(s) => data[s] = initialize[Other(target)][s]
  /\ Ready("RESEARCHERS") =>
       DiffKeys(data["RESEARCHERS"], initialize[Other(target)]["RESEARCHERS"])
         = {"EnhancedShockwaves"}
  /\ Ready("SPEED_UPGRADES") =>
       DiffKeys(data["SPEED_UPGRADES"], initialize[Other(target)]["SPEED_UPGRADES"])
         = {"Medivac", "VoidRay"}
  /\ Ready("INHIBITOR_ZONE_RADIUS") =>
       DiffKeys(data["INHIBITOR_ZONE_RADIUS"], initialize[Other(target)]["INHIBITOR_ZONE_RADIUS"])
         = FlyingZones
  /\ Ready("SPEED_BUFFS") =>
       DiffKeys(data["SPEED_BUFFS"], initialize[Other(target)]["SPEED_BUFFS"])
         = {"ChargeUp", "InhibitorZoneFlyingTemporalField",
            "AccelerationZoneTemporalField", "AccelerationZoneFlyingTemporalField"}

\* Every table is built, in the windows build.
C10_Witness ==
  /\ target = Windows
  /\ \A s \in Statics : Ready(s)
  /\ get(data["SPEED_UPGRADES"], "VoidRay") = Some(<<"VoidRaySpeedUpgrade", 13280000>>)

race_values(race) ==
  LET profile == get(data["RACE_VALUES"], race)
  IN  IF profile = None THEN RaceValues_default ELSE profile[1]

UnitFields == {"start_townhall", "gas", "rich_gas", "supply", "worker"}

\* C12: race profile totality.  Once RACE_VALUES is built, each of Terran,
\* Zerg and Protoss has an entry whose unit fields all differ from NotAUnit
\* and whose townhalls are not empty; the all-sentinel profile is served
\* only for a race outside the table.
C12_RaceProfileTotal ==
  Ready("RACE_VALUES") =>
    /\ \A race \in Race :
         /\ race \in DOMAIN data["RACE_VALUES"]
         /\ \A f \in UnitFields : race_values(race)[f] # "NotAUnit"
         /\ race_values(race).townhalls # <<>>
    /\ \A race \in Race \cup {"Random"} :
         (race_values(race) = RaceValues_default) <=> (race = "Random")
    /\ \A f \in UnitFields : RaceValues_default[f] = "NotAUnit"
    /\ RaceValues_default.townhalls = <<>>

\* RACE_VALUES is built and serves the Protoss profile.
C12_Witness ==
  /\ Ready("RACE_VALUES")
  /\ race_values("Protoss").start_townhall = "Nexus"
  /\ race_values("Protoss").rich_gas = "AssimilatorRich"

(***************************************************************************)
(* C13.                                                                    *)
(***************************************************************************)
warp_ability(unit) == get(data["WARPGATE_ABILITIES"], unit)

\* C13: warp-ability scope.  Once WARPGATE_ABILITIES, PRODUCERS and
\* ALL_PRODUCERS are built, every unit with a warp ability has a canonical
\* producer and has WarpGate among all its producers, and the units with a
\* warp ability are a strict subset of the keys of PRODUCERS.
C13_WarpAbilityScope ==
  (Ready("WARPGATE_ABILITIES") /\ Ready("PRODUCERS") /\ Ready("ALL_PRODUCERS")) =>
    /\ \A u \in DOMAIN data["WARPGATE_ABILITIES"] :
         /\ canonical_producer(u) # None
         /\ "WarpGate" \in all_producers(u)
    /\ DOMAIN data["WARPGATE_ABILITIES"] \subseteq DOMAIN data["PRODUCERS"]
    /\ DOMAIN data["WARPGATE_ABILITIES"] # DOMAIN data["PRODUCERS"]

\* The three tables are built and Stalker has a warp ability.
C13_Witness ==
  /\ Ready("WARPGATE_ABILITIES") /\ Ready("PRODUCERS") /\ Ready("ALL_PRODUCERS")
  /\ warp_ability("Stalker") = Some("WarpGateTrainStalker")
  /\ "WarpGate" \in all_producers("Stalker")

(***************************************************************************)
(* C16.                                                                    *)
(***************************************************************************)
researcher(upgrade) == get(data["RESEARCHERS"], upgrade)

speed_upgrade(unit) == get(data["SPEED_UPGRADES"], unit)

off_creep_speed_upgrade(unit) == get(data["OFF_CREEP_SPEED_UPGRADES"], unit)

creep_speed_multiplier(unit) == get(data["SPEED_ON_CREEP"], unit)

\* C16: literal spot checks, for either compile target.  Once the table is
\* built: canonical_producer(Marine) is Barracks; all_producers(Zealot) is
\* {Gateway, WarpGate} and contains canonical_producer(Zealot);
\* researcher(Stimpack) is BarracksTechLab; speed_upgrade(Zergling) is
\* (Zerglingmovementspeed, 1.6); creep_speed_multiplier(Queen) is 2.67.
C16_LiteralSpotChecks ==
  /\ Ready("PRODUCERS") => canonical_producer("Marine") = Some("Barracks")
  /\ Ready("ALL_PRODUCERS") => all_producers("Zealot") = {"Gateway", "WarpGate"}
  /\ (Ready("PRODUCERS") /\ Ready("ALL_PRODUCERS")) =>
       /\ canonical_producer("Zealot") # None
       /\ canonical_producer("Zealot")[1] \in all_producers("Zealot")
  /\ Ready("RESEARCHERS") => researcher("Stimpack") = Some("BarracksTechLab")
  /\ Ready("SPEED_UPGRADES") =>
       speed_upgrade("Zergling") = Some(<<"Zerglingmovementspeed", 16000000>>)
  /\ Ready("SPEED_ON_CREEP") => creep_speed_multiplier("Queen") = Some(26700000)

\* The five tables of the spot checks are built, in the unix build.
C16_Witness ==
  /\ target = Unix
  /\ \A s \in {"PRODUCERS", "ALL_PRODUCERS", "RESEARCHERS", "SPEED_UPGRADES",
               "SPEED_ON_CREEP"} : Ready(s)
  /\ creep_speed_multiplier("Queen") # None

(***************************************************************************)
(* C18.                                                                    *)
(***************************************************************************)
\* m is the canonical producer p or an alias form of it: a member of its
\* alias group or its counterpart in the alias-pair table.
AliasFormOf(m, p) ==
  \/ m = p
  \/ m \in alias_group(p)
  \/ alias_pair(p) = Some(m)
  \/ alias_pair(m) = Some(p)

AliasTablesReady ==
  /\ Ready("PRODUCERS") /\ Ready("ALL_PRODUCERS")
  /\ Ready("TECH_ALIAS") /\ Ready("UNIT_ALIAS")

\* C18 (as stated): once the four tables are built, every member of
\* all_producers(K) is canonical_producer(K) or an alias form of it, and no
\* unit is a member of its own all_producers.
C18_AllProducersAreAliasForms ==
  AliasTablesReady =>
    \A k \in DOMAIN data["ALL_PRODUCERS"] :
      /\ k \notin all_producers(k)
      /\ canonical_producer(k) # None
      /\ \A m \in all_producers(k) : AliasFormOf(m, canonical_producer(k)[1])

\* C18 (amended): once the four tables are built, for every unit K other
\* than CreepTumor every member of all_producers(K) is canonical_producer(K)
\* or an alias form of it and K is not a member of its own all_producers;
\* all_producers(CreepTumor) is {CreepTumor, CreepTumorBurrowed,
\* CreepTumorQueen, Queen}, its canonical producer Queen together with
\* CreepTumor itself and its two other forms.
C18_AllProducersAreAliasFormsAmended ==
  AliasTablesReady =>
    /\ \A k \in (DOMAIN data["ALL_PRODUCERS"]) \ {"CreepTumor"} :
         /\ k \notin all_producers(k)
         /\ canonical_producer(k) # None
         /\ \A m \in all_producers(k) : AliasFormOf(m, canonical_producer(k)[1])
    /\ canonical_producer("CreepTumor") = Some("Queen")
    /\ all_producers("CreepTumor") =
         {"CreepTumor", "CreepTumorBurrowed", "CreepTumorQueen", "Queen"}

\* The four tables are built; LocustMPFlying is produced by SwarmHostMP and
\* by its alias-pair counterpart, Queen by Hatchery and its alias group.
C18_Witness ==
  /\ AliasTablesReady
  /\ all_producers("LocustMPFlying") = {"SwarmHostBurrowedMP", "SwarmHostMP"}
  /\ alias_pair("SwarmHostMP") = Some("SwarmHostBurrowedMP")
  /\ all_producers("Queen") = {"Hatchery"} \cup alias_group("Hatchery")

(***************************************************************************)
(* C19.                                                                    *)
(***************************************************************************)
\* C19: researcher coverage of speed upgrades.  Once the tables are built,
\* every upgrade named by a SPEED_UPGRADES or OFF_CREEP_SPEED_UPGRADES entry
\* has a RESEARCHERS entry.
C19_SpeedUpgradesHaveResearchers ==
  /\ (Ready("RESEARCHERS") /\ Ready("SPEED_UPGRADES")) =>
       \A u \in DOMAIN data["SPEED_UPGRADES"] :
         researcher(data["SPEED_UPGRADES"][u][1]) # None
  /\ (Ready("RESEARCHERS") /\ Ready("OFF_CREEP_SPEED_UPGRADES")) =>
       \A u \in DOMAIN data["OFF_CREEP_SPEED_UPGRADES"] :
         researcher(data["OFF_CREEP_SPEED_UPGRADES"][u][1]) # None

(***************************************************************************)
(* C20.                                                                    *)
(***************************************************************************)
\* C20: town-hall forms agree with the alias groups.  Once RACE_VALUES and
\* TECH_ALIAS are built, the townhalls of every race are its start_townhall
\* together with alias_group(start_townhall), and any two distinct townhall
\* forms of a race are in each other's alias group.
C20_TownhallsAreAliasGroup ==
  (Ready("RACE_VALUES") /\ Ready("TECH_ALIAS")) =>
    \A race \in DOMAIN data["RACE_VALUES"] :
      LET profile == data["RACE_VALUES"][race]
          forms == Range(profile.townhalls)
      IN  /\ forms = {profile.start_townhall} \cup alias_group(profile.start_townhall)
          /\ \A a, b \in forms : a # b => b \in alias_group(a)

\* Both tables are built and the five Terran townhall forms are served.
C20_Witness ==
  /\ Ready("RACE_VALUES") /\ Ready("TECH_ALIAS")
  /\ Len(data["RACE_VALUES"]["Terran"].townhalls) = 5
  /\ "OrbitalCommandFlying" \in alias_group("CommandCenter")

(***************************************************************************)
(* C17.                                                                    *)
(***************************************************************************)
\* The literal of static s, as written for target t.
Literal(s, t) ==
  CASE s = "RACE_VALUES" -> RACE_VALUES_pairs
    [] s = "TECH_ALIAS" -> TECH_ALIAS_pairs
    [] s = "UNIT_ALIAS" -> UNIT_ALIAS_pairs
    [] s = "TECH_REQUIREMENTS" -> TECH_REQUIREMENTS_pairs
    [] s = "PRODUCERS" -> PRODUCERS_pairs
    [] s = "ALL_PRODUCERS" -> ALL_PRODUCERS_pairs
    [] s = "RESEARCHERS" -> RESEARCHERS_pairs
    [] s = "DAMAGE_BONUS_PER_UPGRADE" -> DAMAGE_BONUS_PER_UPGRADE_pairs
    [] s = "SPEED_UPGRADES" -> SPEED_UPGRADES_pairs
    [] s = "OFF_CREEP_SPEED_UPGRADES" -> OFF_CREEP_SPEED_UPGRADES_pairs
    [] s = "SPEED_ON_CREEP" -> SPEED_ON_CREEP_pairs
    [] s = "WARPGATE_ABILITIES" -> WARPGATE_ABILITIES_pairs
    [] s = "MISSED_WEAPONS" -> MISSED_WEAPONS_pairs
    [] s = "INHIBITOR_ZONE_RADIUS" -> INHIBITOR_ZONE_RADIUS_pairs
    [] s = "SPEED_BUFFS" -> SPEED_BUFFS_pairs(t)

\* The keys that the cfg(windows) block of static s inserts.
WindowsOnlyKeys(s) ==
  CASE s = "RESEARCHERS" -> {"EnhancedShockwaves"}
    [] s = "SPEED_UPGRADES" -> {"Medivac", "VoidRay"}
    [] s = "INHIBITOR_ZONE_RADIUS" -> FlyingZones
    [] s = "SPEED_BUFFS" -> {"InhibitorZoneFlyingTemporalField",
                             "AccelerationZoneTemporalField",
                             "AccelerationZoneFlyingTemporalField"}
    [] OTHER -> {}

\* The keys written for static s in the source, for target t.
WrittenKeys(s, t) ==
  {Literal(s, t)[i][1] : i \in DOMAIN Literal(s, t)}
    \cup (IF t = Windows THEN WindowsOnlyKeys(s) ELSE {})

\* The tables whose values are lists, read as sets of members.
VecStatics == {"TECH_ALIAS", "ALL_PRODUCERS", "MISSED_WEAPONS"}

Members(entry) == IF entry = None THEN {} ELSE Range(entry[1])

\* C17: absence is a value.  A lookup of an identifier that is not written
\* as a key of the table is answered (no lookup is ever refused) with the
\* not-found result None, which reads as no members for TECH_ALIAS,
\* ALL_PRODUCERS and MISSED_WEAPONS, and the lookup is a single hop:
\* it touches no static other than the one looked up.
C17_AbsenceIsAValue ==
  last # <<>> =>
    /\ last[2] \notin WrittenKeys(last[1], target) =>
         /\ last[3] = None
         /\ last[1] \in VecStatics => Members(last[3]) = {}
    /\ \A s \in Statics \ {last[1]} : once[s] = Incomplete /\ data[s] = HashMap_new
    /\ \A k \in KeyType(last[1]) : ENABLED Query(last[1], k)

\* An absent key of a Vec-valued table has been looked up.
C17_Witness ==
  /\ last = <<"ALL_PRODUCERS", "WarpGate", None>>
  /\ Ready("ALL_PRODUCERS")


(***************************************************************************)
(* C14.                                                                    *)
(***************************************************************************)
\* The thread is inside `deref` of static s and has not returned yet.
Calling(th, s) == threads[th].pc = "call" /\ threads[th].static = s

\* C14: exactly-once, all-or-nothing initialization.  With several threads
\* dereferencing the block-initialized statics, the initializer of each
\* static is entered at most once and exactly once when the static is no
\* longer incomplete; the static holds nothing until the initializer has
\* finished; a caller that arrives while the initializer runs can take no
\* step; and every table a thread has seen is the fully built one, with the
\* cfg(windows) entries when compiled for windows.
C14_ExactlyOnceAllOrNothing ==
  /\ \A s \in Statics :
       /\ runs[s] <= 1
       /\ once[s] # Incomplete <=> runs[s] = 1
       /\ once[s] # Complete => data[s] = HashMap_new
       /\ once[s] = Running =>
            Cardinality({th \in Threads :
                           /\ threads[th].static = s
                           /\ threads[th].pc \in {"literal", "cfg", "store"}}) = 1
  /\ \A th \in Threads :
       /\ \A s \in BlockStatics :
            Calling(th, s) /\ once[s] = Running => ~ ENABLED (Enter(th) \/ Read(th))
       /\ threads[th].seen # <<>> =>
            LET s == threads[th].seen[1]
                map == threads[th].seen[2]
            IN  /\ map = initialize[target][s]
                /\ target = Windows => WindowsOnlyKeys(s) \subseteq DOMAIN map
                /\ target = Unix => WindowsOnlyKeys(s) \cap DOMAIN map = {}

\* One thread is between the literal and the cfg(windows) block of
\* RESEARCHERS, its `map` without EnhancedShockwaves, while the other thread
\* is waiting in its first dereference of RESEARCHERS.
C14_Witness ==
  /\ target = Windows
  /\ threads[1].pc = "cfg" /\ threads[1].static = "RESEARCHERS"
  /\ "EnhancedShockwaves" \notin DOMAIN threads[1].local
  /\ Calling(2, "RESEARCHERS")
  /\ threads[2].seen = <<>>

(***************************************************************************)
(* C15.                                                                    *)
(***************************************************************************)
\* C15: immutability after initialization.  No step of any thread changes a
\* static that is complete, neither its Once nor its table, and a table seen
\* after a step is the one any thread had seen of that static before it.
C15_ImmutableAfterInit ==
  [][/\ \A s \in Statics :
          once[s] = Complete => once'[s] = Complete /\ data'[s] = data[s]
     /\ \A th1, th2 \in Threads :
          (/\ threads[th1].seen # <<>>
           /\ threads'[th2].seen # <<>>
           /\ threads[th1].seen[1] = threads'[th2].seen[1])
            => threads'[th2].seen[2] = threads[th1].seen[2]]_vars

\* Every block-initialized static is complete and both threads have read
\* SPEED_BUFFS.
C15_Witness ==
  /\ \A s \in BlockStatics : once[s] = Complete
  /\ \A th \in Threads :
       threads[th].seen # <<>> /\ threads[th].seen[1] = "SPEED_BUFFS"

(***************************************************************************)
(* C21.                                                                    *)
(***************************************************************************)
\* The prerequisite TECH_REQUIREMENTS gives for a unit.
tech_requirement(unit) == get(data["TECH_REQUIREMENTS"], unit)

\* C21: producer and tech tables share one domain.  Once PRODUCERS and
\* ALL_PRODUCERS are built they have the same keys, and a unit has a
\* non-empty all_producers set exactly when it has a canonical producer;
\* once TECH_REQUIREMENTS and PRODUCERS are built, every key and every value
\* of TECH_REQUIREMENTS is a key of PRODUCERS.
C21_ProducerTechShareDomain ==
  /\ Ready("PRODUCERS") /\ Ready("ALL_PRODUCERS") =>
       /\ DOMAIN data["PRODUCERS"] = DOMAIN data["ALL_PRODUCERS"]
       /\ \A u \in UnitTypeId :
            all_producers(u) # {} <=> canonical_producer(u) # None
  /\ Ready("TECH_REQUIREMENTS") /\ Ready("PRODUCERS") =>
       \A u \in UnitTypeId :
         tech_requirement(u) # None =>
           /\ canonical_producer(u) # None
           /\ canonical_producer(tech_requirement(u)[1]) # None

\* The three tables are built; Thor needs an Armory, which an SCV builds.
C21_Witness ==
  /\ Ready("PRODUCERS") /\ Ready("ALL_PRODUCERS") /\ Ready("TECH_REQUIREMENTS")
  /\ tech_requirement("Thor") = Some("Armory")
  /\ canonical_producer("Armory") = Some("SCV")
  /\ all_producers("Armory") = {"SCV"}

(***************************************************************************)
(* C22.                                                                    *)
(***************************************************************************)
\* C22: the inhibitor id set matches the radius table.  INHIBITOR_IDS holds
\* six distinct ids when compiled for windows and three for unix, the unix
\* ids being among the windows ids; once INHIBITOR_ZONE_RADIUS is built its
\* keys are exactly the ids of the same target, and on the keys that the
\* table of the other target also has, the radii are equal, the unix keys
\* being among the windows keys.
C22_InhibitorIdsMatchRadius ==
  LET ids == Range(INHIBITOR_IDS(target))
      full == INHIBITOR_ZONE_RADIUS(Windows)
      reduced == INHIBITOR_ZONE_RADIUS(Unix)
  IN  /\ Cardinality(ids) = Len(INHIBITOR_IDS(target))
      /\ Cardinality(ids) = IF target = Windows THEN 6 ELSE 3
      /\ Range(INHIBITOR_IDS(Unix)) \subseteq Range(INHIBITOR_IDS(Windows))
      /\ Ready("INHIBITOR_ZONE_RADIUS") =>
           LET map == data["INHIBITOR_ZONE_RADIUS"]
               other == IF target = Windows THEN reduced ELSE full
           IN  /\ DOMAIN map = ids
               /\ \A k \in DOMAIN map \cap DOMAIN other : map[k] = other[k]
               /\ IF target = Windows
                  THEN DOMAIN other \subseteq DOMAIN map
                  ELSE DOMAIN map \subseteq DOMAIN other

\* The unix build has built its radius table of three zones.
C22_Witness ==
  /\ target = Unix
  /\ Ready("INHIBITOR_ZONE_RADIUS")
  /\ DOMAIN data["INHIBITOR_ZONE_RADIUS"] =
       {"InhibitorZoneSmall", "InhibitorZoneMedium", "InhibitorZoneLarge"}
  /\ get(data["INHIBITOR_ZONE_RADIUS"], "InhibitorZoneMedium") = Some(50000000)
=============================================================================
